---- MODULE Spec2Model ----
(***************************************************************************)
(* Terminal-Poker: the betting state machine of poker/game.py together     *)
(* with Player (poker/player.py), Deck (poker/deck.py), Card               *)
(* (poker/card.py) and the hand evaluator (poker/evaluator.py).            *)
(*                                                                         *)
(* A card is an integer 0..51 in the order Deck.reset builds the deck:     *)
(* card = 13 * (index of suit in Card.SUITS) + (index of rank in RANKS).   *)
(* Seats are numbered 0..n-1 as the indices of PokerGame.players; a        *)
(* player's name is modelled by the seat number.                           *)
(***************************************************************************)
EXTENDS Integers, Sequences, FiniteSets, TLC

(* ---------------------------------------------------------------------- *)
(* Bounds of the model                                                     *)
(* ---------------------------------------------------------------------- *)
\* largest table: games are built with 2..MaxPlayers players
MaxPlayers == 3
\* number of start_new_hand calls explored
MaxHands == 1
\* number of deck orders random.shuffle may produce in the model
NumShuffles == 3
\* stacks the players are constructed with
StartStacks == {3, 12, 25}
\* amounts passed to bet(amount) and raise_bet(amount)
Amounts == {-5, 0, 15, 60}
\* number of start_new_hand calls explored when several hands are played in a
\* row
MaxRotationHands == 6
\* number of times two cards of a hand change places before evaluate_hand is
\* called on it
MaxReorders == 2

(* ---------------------------------------------------------------------- *)
(* Program constants                                                       *)
(* ---------------------------------------------------------------------- *)
small_blind == 5
big_blind == 10
SUITS == <<"hearts", "diamonds", "clubs", "spades">>
RANKS == <<"2", "3", "4", "5", "6", "7", "8", "9", "10", "J", "Q", "K", "A">>
NumRanks == Len(RANKS)
DeckSize == Len(SUITS) * Len(RANKS)
PHASES == <<"preflop", "flop", "turn", "river", "showdown">>

(* ---------------------------------------------------------------------- *)
(* Sequence helpers                                                        *)
(* ---------------------------------------------------------------------- *)
Min(a, b) == IF a < b THEN a ELSE b
Max(a, b) == IF a > b THEN a ELSE b

RECURSIVE SumSeq(_)
SumSeq(s) == IF s = <<>> THEN 0 ELSE Head(s) + SumSeq(Tail(s))

\* Python's list comparison a > b (lexicographic, a proper prefix is smaller)
RECURSIVE ListGT(_, _)
ListGT(a, b) ==
    IF a = <<>> THEN FALSE
    ELSE IF b = <<>> THEN TRUE
    ELSE IF Head(a) # Head(b) THEN Head(a) > Head(b)
    ELSE ListGT(Tail(a), Tail(b))

\* insert x into the descending sequence s after every element >= x (stable)
RECURSIVE InsertDesc(_, _)
InsertDesc(s, x) ==
    IF s = <<>> THEN <<x>>
    ELSE IF Head(s) >= x THEN <<Head(s)>> \o InsertDesc(Tail(s), x)
    ELSE <<x>> \o s

\* list.sort(reverse=True) on integers
RECURSIVE SortDesc(_)
SortDesc(s) ==
    IF s = <<>> THEN <<>> ELSE InsertDesc(SortDesc(SubSeq(s, 1, Len(s) - 1)), s[Len(s)])

(* ---------------------------------------------------------------------- *)
(* Card                                                                    *)
(* ---------------------------------------------------------------------- *)
get_value(card) == card % NumRanks
get_suit_value(card) == card \div NumRanks

(* ---------------------------------------------------------------------- *)
(* HandEvaluator                                                           *)
(* ---------------------------------------------------------------------- *)
HAND_RANKINGS ==
    <<"Royal Flush", "Straight Flush", "Four of a Kind", "Full House", "Flush",
      "Straight", "Three of a Kind", "Two Pair", "One Pair", "High Card">>

Values(cards) == [i \in 1..Len(cards) |-> get_value(cards[i])]

\* Counter([card.rank for card in cards])[rank]
RankCount(cards, v) == Cardinality({i \in 1..Len(cards) : get_value(cards[i]) = v})

\* the ranks with the given count, in the order Counter.items() yields them
\* (order of first occurrence in cards)
RanksWithCount(cards, c) ==
    LET vs == Values(cards)
        firsts == SelectSeq([i \in 1..Len(cards) |-> i],
                         LAMBDA i : /\ RankCount(cards, vs[i]) = c
                                    /\ \A j \in 1..(i - 1) : vs[j] # vs[i])
    IN  [k \in 1..Len(firsts) |-> vs[firsts[k]]]

\* [card.get_value() for card in cards if card.rank != rank ...]
ValuesExcept(cards, excluded) == SelectSeq(Values(cards), LAMBDA v : v \notin excluded)

SameSuit(cards) == Cardinality({get_suit_value(cards[i]) : i \in 1..Len(cards)}) = 1

\* a straight check that counts the ace of A 2 3 4 5 as the high card
_check_straight_AceHighWheel(cards) ==
    LET values == {get_value(cards[i]) : i \in 1..Len(cards)}
        hi == CHOOSE v \in values : \A w \in values : w <= v
        lo == CHOOSE v \in values : \A w \in values : w >= v
    IN  IF values = {0, 1, 2, 3, 12} THEN <<TRUE, <<12>> >>
        ELSE IF Cardinality(values) = 5 /\ hi - lo = 4 THEN <<TRUE, <<hi>> >>
        ELSE <<FALSE, <<>> >>

_check_straight(cards) ==
    LET values == {get_value(cards[i]) : i \in 1..Len(cards)}
        hi == CHOOSE v \in values : \A w \in values : w <= v
        lo == CHOOSE v \in values : \A w \in values : w >= v
    IN  IF values = {0, 1, 2, 3, 12} THEN <<TRUE, <<3>> >>
        ELSE IF Cardinality(values) = 5 /\ hi - lo = 4 THEN <<TRUE, <<hi>> >>
        ELSE <<FALSE, <<>> >>

_check_royal_flush(cards) ==
    IF ~SameSuit(cards) THEN <<FALSE, <<>> >>
    ELSE IF {get_value(cards[i]) : i \in 1..Len(cards)} = {12, 11, 10, 9, 8}
         THEN <<TRUE, <<14>> >>
         ELSE <<FALSE, <<>> >>

_check_straight_flush(cards) ==
    IF ~SameSuit(cards) THEN <<FALSE, <<>> >>
    ELSE IF _check_straight(cards)[1] THEN <<TRUE, _check_straight(cards)[2]>>
    ELSE <<FALSE, <<>> >>

_check_four_of_a_kind(cards) ==
    LET fours == RanksWithCount(cards, 4)
    IN  IF fours # <<>>
        THEN <<TRUE, <<fours[1]>> \o ValuesExcept(cards, {fours[1]})>>
        ELSE <<FALSE, <<>> >>

\* a full house check that gives the pair before the three of a kind
_check_full_house_PairFirst(cards) ==
    LET threes == RanksWithCount(cards, 3)
        twos == RanksWithCount(cards, 2)
    IN  IF threes # <<>> /\ twos # <<>>
        THEN <<TRUE, <<twos[Len(twos)], threes[Len(threes)]>> >>
        ELSE <<FALSE, <<>> >>

_check_full_house(cards) ==
    LET threes == RanksWithCount(cards, 3)
        twos == RanksWithCount(cards, 2)
    IN  IF threes # <<>> /\ twos # <<>>
        THEN <<TRUE, <<threes[Len(threes)], twos[Len(twos)]>> >>
        ELSE <<FALSE, <<>> >>

_check_flush(cards) ==
    IF SameSuit(cards) THEN <<TRUE, SortDesc(Values(cards))>> ELSE <<FALSE, <<>> >>

_check_three_of_a_kind(cards) ==
    LET threes == RanksWithCount(cards, 3)
    IN  IF threes # <<>>
        THEN <<TRUE, <<threes[1]>> \o SortDesc(ValuesExcept(cards, {threes[1]}))>>
        ELSE <<FALSE, <<>> >>

_check_two_pair(cards) ==
    LET twos == RanksWithCount(cards, 2)
        pair_values == SortDesc(twos)
    IN  IF Len(twos) = 2
        THEN <<TRUE, pair_values \o ValuesExcept(cards, {twos[1], twos[2]})>>
        ELSE <<FALSE, <<>> >>

_check_one_pair(cards) ==
    LET twos == RanksWithCount(cards, 2)
    IN  IF twos # <<>>
        THEN <<TRUE, <<twos[1]>> \o SortDesc(ValuesExcept(cards, {twos[1]}))>>
        ELSE <<FALSE, <<>> >>

_check_high_card(cards) == <<TRUE, SortDesc(Values(cards))>>

\* (index into HAND_RANKINGS counted from 0, hand type, tie breakers)
_evaluate_five_card_hand(cards) ==
    IF _check_royal_flush(cards)[1] THEN <<0, HAND_RANKINGS[1], _check_royal_flush(cards)[2]>>
    ELSE IF _check_straight_flush(cards)[1]
         THEN <<1, HAND_RANKINGS[2], _check_straight_flush(cards)[2]>>
    ELSE IF _check_four_of_a_kind(cards)[1]
         THEN <<2, HAND_RANKINGS[3], _check_four_of_a_kind(cards)[2]>>
    ELSE IF _check_full_house(cards)[1]
         THEN <<3, HAND_RANKINGS[4], _check_full_house(cards)[2]>>
    ELSE IF _check_flush(cards)[1] THEN <<4, HAND_RANKINGS[5], _check_flush(cards)[2]>>
    ELSE IF _check_straight(cards)[1] THEN <<5, HAND_RANKINGS[6], _check_straight(cards)[2]>>
    ELSE IF _check_three_of_a_kind(cards)[1]
         THEN <<6, HAND_RANKINGS[7], _check_three_of_a_kind(cards)[2]>>
    ELSE IF _check_two_pair(cards)[1] THEN <<7, HAND_RANKINGS[8], _check_two_pair(cards)[2]>>
    ELSE IF _check_one_pair(cards)[1] THEN <<8, HAND_RANKINGS[9], _check_one_pair(cards)[2]>>
    ELSE <<9, HAND_RANKINGS[10], _check_high_card(cards)[2]>>

\* itertools.combinations(range(lo, n + 1), k) as a sequence, in its order
RECURSIVE IndexCombinations(_, _, _)
IndexCombinations(lo, n, k) ==
    IF k = 0 THEN << <<>> >>
    ELSE IF n - lo + 1 < k THEN <<>>
    ELSE LET with == IndexCombinations(lo + 1, n, k - 1)
         IN  [i \in 1..Len(with) |-> <<lo>> \o with[i]] \o IndexCombinations(lo + 1, n, k)

\* sorted(five_cards, key=get_value, reverse=True): stable, descending by value
RECURSIVE SortCardsDesc(_)
SortCardsDesc(cards) ==
    IF cards = <<>> THEN <<>>
    ELSE LET rest == SortCardsDesc(SubSeq(cards, 1, Len(cards) - 1))
             c == cards[Len(cards)]
             before == SelectSeq(rest, LAMBDA d : get_value(d) >= get_value(c))
             after == SelectSeq(rest, LAMBDA d : get_value(d) < get_value(c))
         IN  before \o <<c>> \o after

\* the value of five sorted cards, followed by the cards themselves
FiveCardValue(sorted_cards) == _evaluate_five_card_hand(sorted_cards) \o <<sorted_cards>>

\* a comparison that looks at the rank index only and keeps the first hand of
\* the best category
KeepBetter_RankOnly(best, hand_value) ==
    IF hand_value[1] < best[1] \/ best[4] = <<>> THEN hand_value ELSE best

\* evaluate_hand keeps the best hand so far unless the new one has a lower
\* rank index, or the same rank index and greater tie breakers
KeepBetter(best, hand_value) ==
    IF \/ hand_value[1] < best[1]
       \/ hand_value[1] = best[1] /\ ListGT(hand_value[3], best[3])
    THEN hand_value
    ELSE best

\* the loop of evaluate_hand over the combinations from the k-th on
RECURSIVE EvaluateLoop(_, _, _, _)
EvaluateLoop(cards, combos, k, best) ==
    IF k > Len(combos) THEN best
    ELSE EvaluateLoop(cards, combos, k + 1,
             KeepBetter(best,
                        FiveCardValue(SortCardsDesc([i \in 1..5 |-> cards[combos[k][i]]]))))

\* (best_hand_rank, best_hand_type, best_tie_breakers, best_five_cards)
evaluate_hand(cards) ==
    EvaluateLoop(cards, IndexCombinations(1, Len(cards), 5), 1,
                 <<9, "High Card", <<>>, <<>> >>)

(* ---------------------------------------------------------------------- *)
(* Deck                                                                    *)
(* ---------------------------------------------------------------------- *)
\* Deck.reset: for suit in SUITS: for rank in RANKS: cards.append(Card(suit, rank))
reset == [i \in 1..DeckSize |-> i - 1]

\* Deck.shuffle: random.shuffle may leave the cards in any order; the model
\* draws the order from NumShuffles permutations of the cards.  Order 1 deals
\* the four suits of a rank one after the other (hands that tie), order 2 is
\* the order reset leaves, every other order k is an affine permutation.
Multipliers == <<3, 5, 7, 11, 15, 17, 19, 21, 23, 25>>
shuffle(cards, k) ==
    IF k = 1 THEN [i \in 1..DeckSize |-> cards[13 * ((i - 1) % 4) + ((i - 1) \div 4) + 1]]
    ELSE IF k = 2 THEN cards
    ELSE [i \in 1..DeckSize |->
             cards[((Multipliers[((k - 3) % Len(Multipliers)) + 1] * (i - 1) + 5 * k) % DeckSize) + 1]]

\* Deck.deal(num_cards): the cards popped from the end of the list, in the
\* order they are popped
deal(cards, num_cards) == [i \in 1..num_cards |-> cards[Len(cards) + 1 - i]]

\* AfterDeal with the bug of leaving the dealt cards in the deck
AfterDeal_KeepsCards(cards, num_cards) == cards

\* what Deck.deal leaves in the deck
AfterDeal(cards, num_cards) == SubSeq(cards, 1, Len(cards) - num_cards)

(* ---------------------------------------------------------------------- *)
(* Player                                                                  *)
(* ---------------------------------------------------------------------- *)
\* Player.__init__
NewPlayer(chips) ==
    [chips |-> chips, hand |-> <<>>, folded |-> FALSE, current_bet |-> 0, is_all_in |-> FALSE]

\* clear_hand with the bug of leaving is_all_in as it was
clear_hand_KeepsAllIn(p) == [p EXCEPT !.hand = <<>>, !.folded = FALSE, !.current_bet = 0]

clear_hand(p) ==
    [p EXCEPT !.hand = <<>>, !.folded = FALSE, !.current_bet = 0, !.is_all_in = FALSE]

\* PlacedAmount with the bug of not clamping the amount to the chips
PlacedAmount_NotClamped(p, amount) == amount

\* the amount Player.place_bet returns
PlacedAmount(p, amount) == IF amount > p.chips THEN p.chips ELSE amount

\* place_bet with the bug of never setting is_all_in
place_bet_NeverAllIn(p, amount) ==
    [p EXCEPT !.chips = @ - PlacedAmount(p, amount),
              !.current_bet = @ + PlacedAmount(p, amount)]

\* the player after Player.place_bet(amount)
place_bet(p, amount) ==
    [p EXCEPT !.chips = @ - PlacedAmount(p, amount),
              !.current_bet = @ + PlacedAmount(p, amount),
              !.is_all_in = IF amount > p.chips THEN TRUE ELSE @]

can_make_action(p) == ~p.folded /\ ~p.is_all_in /\ p.chips > 0

(* ---------------------------------------------------------------------- *)
(* PokerGame: the state                                                    *)
(* ---------------------------------------------------------------------- *)
VARIABLES
    players,             \* seat -> Player, seats 0..n-1
    deck,                \* Deck.cards
    community_cards,
    pot,
    current_bet,         \* the table current bet
    dealer_idx,
    current_player_idx,
    phase,               \* "none" before the first hand, else one of PHASES
    hand_over,
    winner,              \* <<>> for None, else the winners' names in order
    last_raise_idx,
    \* history of the model, not read by the program:
    hands,               \* number of start_new_hand calls so far
    stacks0,             \* sum of all stacks when the current hand started
    dealers,             \* the dealer_idx of every hand started so far, in order
    turns,               \* the seats that acted since the last bet or raise of the
                         \* betting round, and whether the round had a bet or raise
    eval,                \* a call of HandEvaluator.evaluate_hand: its cards and result
    bots,                \* the class and traits of each player, and the last decision
                         \* bot_action obtained
    call_log             \* the last entry point called and what it did

gameVars == <<players, deck, community_cards, pot, current_bet, dealer_idx,
              current_player_idx, phase, hand_over, winner, last_raise_idx>>
vars == <<players, deck, community_cards, pot, current_bet, dealer_idx,
          current_player_idx, phase, hand_over, winner, last_raise_idx,
          hands, stacks0, dealers, turns, eval, bots, call_log>>

min_bet == big_blind
None == <<>>

\* The game as one value: the handlers below map a game to the game they
\* leave.  evaluations counts the evaluate_hand calls, awards lists the
\* payouts made, trail lists the values next_phase assigned to phase and closes
\* lists the players and the table bet each time next_player called next_phase, since
\* the entry point was entered.
Game ==
    [players |-> players, deck |-> deck, community_cards |-> community_cards,
     pot |-> pot, current_bet |-> current_bet, dealer_idx |-> dealer_idx,
     current_player_idx |-> current_player_idx, phase |-> phase,
     hand_over |-> hand_over, winner |-> winner, last_raise_idx |-> last_raise_idx,
     evaluations |-> 0, awards |-> <<>>, trail |-> <<>>, closes |-> <<>>]

Seats(g) == DOMAIN g.players
NumSeats(g) == Cardinality(DOMAIN g.players)
\* the seats in list order as a sequence
SeatSeq(g) == [i \in 1..NumSeats(g) |-> i - 1]
\* [p for p in self.players if not p.folded]
ActivePlayers(g) == SelectSeq(SeatSeq(g), LAMBDA i : ~g.players[i].folded)
TotalChips(ps) == SumSeq([i \in 1..Cardinality(DOMAIN ps) |-> ps[i - 1].chips])

(* ---------------------------------------------------------------------- *)
(* PokerGame: showdown                                                     *)
(* ---------------------------------------------------------------------- *)
\* the seven cards seat i of n holds at a showdown when the deck was left in
\* order k: its two hole cards and the five community cards
ShowdownCards(n, k, i) ==
    LET dealt == deal(shuffle(reset, k), 2 * n + 5)
    IN  <<dealt[i + 1], dealt[n + i + 1]>> \o SubSeq(dealt, 2 * n + 1, 2 * n + 5)

\* evaluate_hand tabulated, once, over the seven-card hands the deals of the
\* model lead to
EvaluatedHands ==
    LET hands7 == {ShowdownCards(n, k, i) :
                     <<n, k, i>> \in {t \in (2..MaxPlayers) \X (1..NumShuffles) \X (0..(MaxPlayers - 1)) :
                                         t[3] < t[1]}}
    IN  [cards \in hands7 |-> evaluate_hand(cards)]

\* HandEvaluator.evaluate_hand(player.hand + self.community_cards)
HandValue(g, i) == EvaluatedHands[g.players[i].hand \o g.community_cards]

\* one payout, as the model records it: the winners in the order the code
\* lists them, the pot they were paid from, the players then active, whether
\* hands were evaluated, and the chips each seat gained
Award(g, winners, evaluated, gains) ==
    [winners |-> winners, pot |-> g.pot, active |-> ActivePlayers(g),
     evaluated |-> evaluated, gains |-> gains]

\* the hand values of the active players, by seat
HandValues(g) == [i \in {ActivePlayers(g)[k] : k \in 1..Len(ActivePlayers(g))} |-> HandValue(g, i)]

\* one pass of the loop of determine_winner: player, with hand value
\* values[player], against acc = [best_hand_rank, winners, evaluations];
\* every comparison of tie breakers evaluates the hand of winners[0] again
ConsiderPlayer(values, acc, player) ==
    IF values[player][1] < acc.best_hand_rank
    THEN [best_hand_rank |-> values[player][1], winners |-> <<player>>,
          evaluations |-> acc.evaluations + 1]
    ELSE IF values[player][1] = acc.best_hand_rank
    THEN IF acc.winners = <<>> \/ ListGT(values[player][3], values[acc.winners[1]][3])
         THEN [acc EXCEPT !.winners = <<player>>,
                          !.evaluations = @ + (IF acc.winners = <<>> THEN 1 ELSE 2)]
         ELSE IF values[player][3] = values[acc.winners[1]][3]
         THEN [acc EXCEPT !.winners = Append(@, player), !.evaluations = @ + 3]
         ELSE [acc EXCEPT !.evaluations = @ + 3]
    ELSE [acc EXCEPT !.evaluations = @ + 1]

\* the loop of determine_winner over active_players from the k-th on
RECURSIVE WinnersLoop(_, _, _, _)
WinnersLoop(values, active, k, acc) ==
    IF k > Len(active) THEN acc
    ELSE WinnersLoop(values, active, k + 1, ConsiderPlayer(values, acc, active[k]))

\* ShowdownWinners with the bug of keeping only the first of the tied players
ShowdownWinners_FirstOfTiedOnly(g) ==
    [WinnersLoop(HandValues(g), ActivePlayers(g), 1,
                 [best_hand_rank |-> 10, winners |-> <<>>, evaluations |-> 0])
        EXCEPT !.winners = SubSeq(@, 1, 1)]

\* the winners determine_winner finds among two or more active players
ShowdownWinners(g) ==
    WinnersLoop(HandValues(g), ActivePlayers(g), 1,
                [best_hand_rank |-> 10, winners |-> <<>>, evaluations |-> 0])

\* the chips determine_winner adds to seat i when it splits the pot
SplitShare(g, winners, i) ==
    LET split_amount == g.pot \div Len(winners)
        remainder == g.pot % Len(winners)
    IN  (IF \E k \in 1..Len(winners) : winners[k] = i THEN split_amount ELSE 0)
        + (IF remainder > 0 /\ winners[1] = i THEN remainder ELSE 0)

\* the whole pot to the only active player (end_hand and determine_winner)
AwardSingle(g, active) ==
    [g EXCEPT !.winner = <<active[1]>>,
              !.players[active[1]].chips = @ + g.pot,
              !.awards = Append(@, Award(g, <<active[1]>>, FALSE,
                                         [i \in Seats(g) |-> IF i = active[1] THEN g.pot ELSE 0]))]

\* determine_winner, lines 171-182: the pot split among the winners found
AwardSplit(g, found) ==
    [g EXCEPT
        !.players = [i \in Seats(g) |->
                        [g.players[i] EXCEPT !.chips = @ + SplitShare(g, found.winners, i)]],
        !.winner = found.winners,
        !.evaluations = @ + found.evaluations,
        !.awards = Append(@, Award(g, found.winners, TRUE,
                                   [i \in Seats(g) |-> SplitShare(g, found.winners, i)]))]

determine_winner(g) ==
    IF Len(ActivePlayers(g)) = 0 THEN g
    ELSE IF Len(ActivePlayers(g)) = 1 THEN AwardSingle(g, ActivePlayers(g))
    ELSE AwardSplit(g, ShowdownWinners(g))

\* end_hand with the bug of not setting hand_over
end_hand_LeavesHandOpen(g) ==
    LET active_players == ActivePlayers(g)
    IN  IF Len(active_players) = 1 THEN AwardSingle(g, active_players)
        ELSE determine_winner(g)

end_hand(g) ==
    LET g1 == [g EXCEPT !.hand_over = TRUE]
        active_players == ActivePlayers(g1)
    IN  IF Len(active_players) = 1 THEN AwardSingle(g1, active_players)
        ELSE determine_winner(g1)

(* ---------------------------------------------------------------------- *)
(* PokerGame: phases and turns                                             *)
(* ---------------------------------------------------------------------- *)
NextSeat(g, i) == (i + 1) % NumSeats(g)

PhaseIndex(ph) == CHOOSE k \in 1..Len(PHASES) : PHASES[k] = ph

\* EnterPhase with the bug of going from the flop straight to the river
EnterPhase_SkipsTurn(g) ==
    LET ph == IF g.phase = "flop" THEN "river" ELSE PHASES[PhaseIndex(g.phase) + 1]
        g1 == [g EXCEPT !.phase = ph, !.trail = Append(@, ph)]
    IN  IF ph = "flop"
        THEN [g1 EXCEPT !.community_cards = @ \o deal(g.deck, 3), !.deck = AfterDeal(g.deck, 3)]
        ELSE IF ph = "river"
        THEN [g1 EXCEPT !.community_cards = @ \o deal(g.deck, 5 - Len(g.community_cards)),
                        !.deck = AfterDeal(g.deck, 5 - Len(g.community_cards))]
        ELSE IF ph = "showdown" THEN determine_winner(g1)
        ELSE g1

\* EnterPhase with the bug of dealing the turn card together with the flop
EnterPhase_TurnCardOnFlop(g) ==
    LET ph == PHASES[PhaseIndex(g.phase) + 1]
        g1 == [g EXCEPT !.phase = ph, !.trail = Append(@, ph)]
    IN  IF ph = "flop"
        THEN [g1 EXCEPT !.community_cards = @ \o deal(g.deck, 4), !.deck = AfterDeal(g.deck, 4)]
        ELSE IF ph = "river"
        THEN [g1 EXCEPT !.community_cards = Append(@, deal(g.deck, 1)[1]),
                        !.deck = AfterDeal(g.deck, 1)]
        ELSE IF ph = "showdown" THEN determine_winner(g1)
        ELSE g1

\* next_phase, lines 98-107: advance the phase and deal or settle for it
EnterPhase(g) ==
    LET ph == PHASES[PhaseIndex(g.phase) + 1]
        g1 == [g EXCEPT !.phase = ph, !.trail = Append(@, ph)]
    IN  IF ph = "flop"
        THEN [g1 EXCEPT !.community_cards = @ \o deal(g.deck, 3), !.deck = AfterDeal(g.deck, 3)]
        ELSE IF ph = "turn" \/ ph = "river"
        THEN [g1 EXCEPT !.community_cards = Append(@, deal(g.deck, 1)[1]),
                        !.deck = AfterDeal(g.deck, 1)]
        ELSE IF ph = "showdown" THEN determine_winner(g1)
        ELSE g1

\* ResetBetting with the bug of leaving the table current bet in place
ResetBetting_KeepsTableBet(g) ==
    [g EXCEPT !.players = [i \in Seats(g) |-> [g.players[i] EXCEPT !.current_bet = 0]]]

\* next_phase, lines 109-112
ResetBetting(g) ==
    [g EXCEPT !.players = [i \in Seats(g) |-> [g.players[i] EXCEPT !.current_bet = 0]],
              !.current_bet = 0]

RECURSIVE next_phase(_)
\* next_phase, lines 116-123: the search for the first player after the dealer
RECURSIVE FirstPlayerLoop(_)
FirstPlayerLoop(g) ==
    IF g.players[g.current_player_idx].folded \/ ~can_make_action(g.players[g.current_player_idx])
    THEN LET g1 == [g EXCEPT !.current_player_idx = NextSeat(g, @)]
         IN  IF g1.current_player_idx = g1.dealer_idx
             THEN next_phase(g1)
             ELSE FirstPlayerLoop(g1)
    ELSE [g EXCEPT !.last_raise_idx = -1]

next_phase(g) ==
    IF g.phase = "showdown" \/ Len(ActivePlayers(g)) <= 1
    THEN end_hand(g)
    ELSE FirstPlayerLoop(
             [ResetBetting(EnterPhase(g)) EXCEPT !.current_player_idx = NextSeat(g, g.dealer_idx)])

\* RoundClosed with the bug of not stopping at the last aggressor
RoundClosed_IgnoresAggressor(g) ==
    \/ Len(ActivePlayers(g)) <= 1
    \/ \A i \in Seats(g) :
          ~g.players[i].folded =>
              (~can_make_action(g.players[i]) \/ g.players[i].current_bet = g.current_bet)

\* next_player, lines 81-84: the betting round is over
RoundClosed(g) ==
    \/ g.current_player_idx = g.last_raise_idx
    \/ Len(ActivePlayers(g)) <= 1
    \/ \A i \in Seats(g) :
          ~g.players[i].folded =>
              (~can_make_action(g.players[i]) \/ g.players[i].current_bet = g.current_bet)

\* next_player with the bug of stopping at the next seat whether or not it
\* can act
next_player_NoSkip(g) ==
    LET g1 == [g EXCEPT !.current_player_idx = NextSeat(g, @)]
    IN  IF RoundClosed(g1)
        THEN next_phase([g1 EXCEPT !.closes = Append(@, [players |-> g1.players,
                                                         current_bet |-> g1.current_bet,
                                                         last_raise_idx |-> g1.last_raise_idx])])
        ELSE g1

RECURSIVE next_player(_)
next_player(g) ==
    LET g1 == [g EXCEPT !.current_player_idx = NextSeat(g, @)]
    IN  IF RoundClosed(g1)
        THEN next_phase([g1 EXCEPT !.closes = Append(@, [players |-> g1.players,
                                                         current_bet |-> g1.current_bet,
                                                         last_raise_idx |-> g1.last_raise_idx])])
        ELSE IF can_make_action(g1.players[g1.current_player_idx]) THEN g1
        ELSE next_player(g1)

(* ---------------------------------------------------------------------- *)
(* PokerGame: the entry points, as maps from the game to the game they     *)
(* leave                                                                   *)
(* ---------------------------------------------------------------------- *)
\* start_new_hand with the bug of leaving the dealer where it was
start_new_hand_KeepsDealer(g, k) ==
    LET n == NumSeats(g)
        dealer == g.dealer_idx
        sb_idx == (dealer + 1) % n
        bb_idx == (dealer + 2) % n
        cleared == [i \in Seats(g) |-> clear_hand(g.players[i])]
        sb_amount == Min(small_blind, cleared[sb_idx].chips)
        with_sb == [cleared EXCEPT ![sb_idx] = place_bet(@, sb_amount)]
        bb_amount == Min(big_blind, with_sb[bb_idx].chips)
        with_bb == [with_sb EXCEPT ![bb_idx] = place_bet(@, bb_amount)]
        cards == shuffle(reset, k)
        dealt == deal(cards, 2 * n)
    IN  [g EXCEPT
            !.deck = AfterDeal(cards, 2 * n),
            !.community_cards = <<>>,
            !.pot = PlacedAmount(cleared[sb_idx], sb_amount)
                    + PlacedAmount(with_sb[bb_idx], bb_amount),
            !.current_bet = bb_amount,
            !.hand_over = FALSE,
            !.winner = None,
            !.phase = PHASES[1],
            !.players = [i \in Seats(g) |->
                            [with_bb[i] EXCEPT !.hand = <<dealt[i + 1], dealt[n + i + 1]>>]],
            !.dealer_idx = dealer,
            !.current_player_idx = (bb_idx + 1) % n,
            !.last_raise_idx = bb_idx]

\* start_new_hand, with k the order random.shuffle leaves the deck in
start_new_hand(g, k) ==
    LET n == NumSeats(g)
        dealer == (g.dealer_idx + 1) % n
        sb_idx == (dealer + 1) % n
        bb_idx == (dealer + 2) % n
        cleared == [i \in Seats(g) |-> clear_hand(g.players[i])]
        sb_amount == Min(small_blind, cleared[sb_idx].chips)
        with_sb == [cleared EXCEPT ![sb_idx] = place_bet(@, sb_amount)]
        bb_amount == Min(big_blind, with_sb[bb_idx].chips)
        with_bb == [with_sb EXCEPT ![bb_idx] = place_bet(@, bb_amount)]
        cards == shuffle(reset, k)
        dealt == deal(cards, 2 * n)
    IN  [g EXCEPT
            !.deck = AfterDeal(cards, 2 * n),
            !.community_cards = <<>>,
            !.pot = PlacedAmount(cleared[sb_idx], sb_amount)
                    + PlacedAmount(with_sb[bb_idx], bb_amount),
            !.current_bet = bb_amount,
            !.hand_over = FALSE,
            !.winner = None,
            !.phase = PHASES[1],
            !.players = [i \in Seats(g) |->
                            [with_bb[i] EXCEPT !.hand = <<dealt[i + 1], dealt[n + i + 1]>>]],
            !.dealer_idx = dealer,
            !.current_player_idx = (bb_idx + 1) % n,
            !.last_raise_idx = bb_idx]

\* fold with the bug of not looking at hand_over
fold_AfterHandOver(g) ==
    LET g1 == [g EXCEPT !.players[g.current_player_idx].folded = TRUE]
    IN  IF Len(ActivePlayers(g1)) = 1 THEN end_hand(g1) ELSE next_player(g1)

fold(g) ==
    IF g.hand_over THEN g
    ELSE LET g1 == [g EXCEPT !.players[g.current_player_idx].folded = TRUE]
         IN  IF Len(ActivePlayers(g1)) = 1 THEN end_hand(g1) ELSE next_player(g1)

check(g) ==
    IF g.hand_over \/ g.players[g.current_player_idx].current_bet < g.current_bet
    THEN g
    ELSE next_player(g)

\* StakeCurrent with the bug of charging the seat after the current player
StakeCurrent_ChargesNextSeat(g, amount) ==
    [g EXCEPT !.players[NextSeat(g, g.current_player_idx)] = place_bet(@, amount),
              !.pot = @ + PlacedAmount(g.players[NextSeat(g, g.current_player_idx)], amount)]

\* the stake of the current player is raised by place_bet(amount) and the
\* chips it returns go to the pot
StakeCurrent(g, amount) ==
    [g EXCEPT !.players[g.current_player_idx] = place_bet(@, amount),
              !.pot = @ + PlacedAmount(g.players[g.current_player_idx], amount)]

call(g) ==
    LET amount_to_call == g.current_bet - g.players[g.current_player_idx].current_bet
    IN  IF g.hand_over THEN g
        ELSE IF amount_to_call <= 0 THEN check(g)
        ELSE next_player(StakeCurrent(g, amount_to_call))

\* BetAmount with the bug of not raising a small request to min_bet
BetAmount_NoMinimum(g, amount) == amount

\* bet, lines 225-226: the amount handed to place_bet
BetAmount(g, amount) ==
    IF amount < min_bet /\ amount < g.players[g.current_player_idx].chips
    THEN min_bet
    ELSE amount

\* bet and raise_bet, their last four lines
MakeAggressor(g) ==
    [g EXCEPT !.current_bet = g.players[g.current_player_idx].current_bet,
              !.last_raise_idx = g.current_player_idx]

\* bet with the bug of not looking at the table current bet
bet_IgnoresTableBet(g, amount) ==
    IF g.hand_over THEN g
    ELSE next_player(MakeAggressor(StakeCurrent(g, BetAmount(g, amount))))

bet(g, amount) ==
    IF g.hand_over \/ g.current_bet > 0 THEN g
    ELSE next_player(MakeAggressor(StakeCurrent(g, BetAmount(g, amount))))

\* RaiseAmount with the bug of passing a small total on as it is
RaiseAmount_NoMinimum(g, amount) ==
    g.current_bet - g.players[g.current_player_idx].current_bet + amount

\* RaiseAmount with the bug of a minimum of min_bet instead of 2 * min_bet
RaiseAmount_SingleMinimum(g, amount) ==
    LET total_amount == g.current_bet - g.players[g.current_player_idx].current_bet + amount
    IN  IF total_amount < min_bet /\ total_amount < g.players[g.current_player_idx].chips
        THEN min_bet
        ELSE total_amount

\* raise_bet, lines 240-243: the amount handed to place_bet
RaiseAmount(g, amount) ==
    LET total_amount == g.current_bet - g.players[g.current_player_idx].current_bet + amount
    IN  IF total_amount < min_bet * 2 /\ total_amount < g.players[g.current_player_idx].chips
        THEN min_bet * 2
        ELSE total_amount

raise_bet(g, amount) ==
    IF g.hand_over THEN g
    ELSE next_player(MakeAggressor(StakeCurrent(g, RaiseAmount(g, amount))))

(* ---------------------------------------------------------------------- *)
(* The state machine                                                       *)
(* ---------------------------------------------------------------------- *)
(* ---------------------------------------------------------------------- *)
(* BotPlayer.  Probabilities, strengths and factors are in thousandths.    *)
(* ---------------------------------------------------------------------- *)
\* where in its interval a call of random.random or random.uniform falls, in
\* thousandths: at the lower end or at the upper end (every threshold a draw is
\* compared with lies strictly between the two)
Draws == {0, 1000}

\* the random draws of one decide_action call: for the hand strength, for the
\* second draw of the unpredictable personality, for the bluff, for the bluff
\* raise, for the bluff amount and for the decision of the style
DrawVectors ==
    [strength : Draws, variance : Draws, bluff : Draws, coin : Draws, amount : Draws,
     style : Draws]

\* random.uniform(a, b)
uniform(a, b, u) == a + ((b - a) * u) \div 1000

\* int(num / den) for den > 0: truncation toward zero
IntOf(num, den) == IF num >= 0 THEN num \div den ELSE -((-num) \div den)

\* a Player that is not a BotPlayer: no traits
PlainPlayer ==
    [cls |-> "Player", decision_style |-> "none", personality |-> "none", bluff_tendency |-> 0]

\* BotPlayer.__init__ with the traits it draws
NewBot(decision_style, personality, bluff_tendency) ==
    [cls |-> "BotPlayer", decision_style |-> decision_style, personality |-> personality,
     bluff_tendency |-> bluff_tendency]

\* the players a table is built from
BotKinds ==
    {PlainPlayer, NewBot("conservative", "tight", 0), NewBot("aggressive", "loose", 300),
     NewBot("balanced", "unpredictable", 150)}

\* base_strength of _evaluate_hand_strength: the table has no entry for the
\* label "One Pair", which gets the default
BaseStrength(hand_type) ==
    CASE hand_type = "High Card" -> 100
      [] hand_type = "Pair" -> 300
      [] hand_type = "Two Pair" -> 500
      [] hand_type = "Three of a Kind" -> 600
      [] hand_type = "Straight" -> 700
      [] hand_type = "Flush" -> 800
      [] hand_type = "Full House" -> 850
      [] hand_type = "Four of a Kind" -> 900
      [] hand_type = "Straight Flush" -> 950
      [] hand_type = "Royal Flush" -> 1000
      [] OTHER -> 100

\* the strength of the hole cards before the flop
HoleCardStrength(hand, u) ==
    IF get_value(hand[1]) = get_value(hand[2]) THEN 800 + uniform(0, 200, u)
    ELSE IF Max(get_value(hand[1]), get_value(hand[2])) >= 10 THEN 600 + uniform(0, 200, u)
    ELSE IF get_suit_value(hand[1]) = get_suit_value(hand[2]) THEN 500 + uniform(0, 200, u)
    ELSE IF Max(get_value(hand[1]), get_value(hand[2]))
              - Min(get_value(hand[1]), get_value(hand[2])) <= 2
         THEN 400 + uniform(0, 200, u)
    ELSE 200 + uniform(0, 300, u)

\* the strength after the adjustment for the personality
Adjusted(personality, strength, u) ==
    CASE personality = "tight" -> (strength * 8) \div 10 + 100
      [] personality = "loose" -> (strength * 6) \div 10 + 300
      [] personality = "unpredictable" -> strength \div 2 + uniform(0, 500, u)
      [] OTHER -> strength

\* hand_type is the label evaluate_hand gives hand + community_cards
_evaluate_hand_strength(g, p, bot, hand_type, r) ==
    IF g.community_cards = <<>> THEN HoleCardStrength(p.hand, r.strength)
    ELSE Min(1000, Max(100, Adjusted(bot.personality,
                                     BaseStrength(hand_type) + uniform(-100, 100, r.strength),
                                     r.variance)))

\* a bet or raise amount left as computed, neither floored nor capped
ClampAmount_NotClamped(p, amount) == amount

\* max(game.min_bet, min(amount, self.chips))
ClampAmount(p, amount) == Max(min_bet, Min(amount, p.chips))

Action(type, amount) == [type |-> type, amount |-> amount]

_conservative_decision(p, hand_strength, cost_to_call, r) ==
    IF cost_to_call = 0
    THEN IF hand_strength > 500
         THEN Action("bet", ClampAmount(p, IntOf(p.chips * hand_strength * 2, 10000)))
         ELSE Action("check", 0)
    ELSE IF hand_strength < 400 THEN Action("fold", 0)
    ELSE IF hand_strength > 700 /\ r.style < 300
         THEN Action("raise", ClampAmount(p, IntOf(cost_to_call * 10000
                                                      + p.chips * hand_strength * 3, 10000)))
    ELSE IF cost_to_call * 10 < p.chips * 2 \/ hand_strength > 500
         THEN Action("call", cost_to_call)
    ELSE Action("fold", 0)

_aggressive_decision(p, hand_strength, cost_to_call, r) ==
    IF cost_to_call = 0
    THEN IF r.style < 700
         THEN Action("bet", ClampAmount(p, IntOf(p.chips * (hand_strength * 5 + 1000), 10000)))
         ELSE Action("check", 0)
    ELSE IF hand_strength < 200 /\ cost_to_call * 10 > p.chips * 3 THEN Action("fold", 0)
    ELSE IF hand_strength > 500 \/ r.style < 400
         THEN Action("raise", ClampAmount(p, IntOf(cost_to_call * 10000
                                                      + p.chips * (hand_strength * 6 + 1000),
                                                   10000)))
    ELSE Action("call", cost_to_call)

_balanced_decision(p, hand_strength, cost_to_call, r) ==
    IF cost_to_call = 0
    THEN IF r.style < hand_strength + 200
         THEN Action("bet", ClampAmount(p, IntOf(p.chips * hand_strength * 3, 10000)))
         ELSE Action("check", 0)
    ELSE IF hand_strength < 300 /\ cost_to_call * 10 > p.chips * 2 THEN Action("fold", 0)
    ELSE IF hand_strength > 600 /\ r.style < 500
         THEN Action("raise", ClampAmount(p, IntOf(cost_to_call * 10000
                                                      + p.chips * hand_strength * 4, 10000)))
    ELSE IF cost_to_call * 10 < p.chips * 3 \/ hand_strength > 400
         THEN Action("call", cost_to_call)
    ELSE Action("fold", 0)

\* the decision of the style, once no bluff was made
StyleDecision(p, bot, hand_strength, cost_to_call, r) ==
    CASE bot.decision_style = "conservative" ->
             _conservative_decision(p, hand_strength, cost_to_call, r)
      [] bot.decision_style = "aggressive" ->
             _aggressive_decision(p, hand_strength, cost_to_call, r)
      [] OTHER -> _balanced_decision(p, hand_strength, cost_to_call, r)

\* decide_action from the hand strength on
DecideWith(p, bot, hand_strength, cost_to_call, r) ==
    IF r.bluff < bot.bluff_tendency /\ cost_to_call = 0
    THEN Action("bet", ClampAmount(p, IntOf(p.chips * uniform(100, 300, r.amount), 1000)))
    ELSE IF r.bluff < bot.bluff_tendency /\ r.coin < 500
    THEN Action("raise", ClampAmount(p, IntOf(cost_to_call * 1000
                                                 + p.chips * uniform(100, 300, r.amount), 1000)))
    ELSE StyleDecision(p, bot, hand_strength, cost_to_call, r)

\* BotPlayer.decide_action(game) of player p with the draws r: None, or the
\* action and its amount
decide_action(g, p, bot, hand_type, r) ==
    IF p.folded \/ p.is_all_in THEN None
    ELSE DecideWith(p, bot, _evaluate_hand_strength(g, p, bot, hand_type, r),
                    g.current_bet - p.current_bet, r)

\* the call self.current_player.decide_action(self) raises an exception: a
\* Player has no decide_action, hand[0] and hand[1] do not exist before the
\* cards are dealt, and evaluate_hand refuses fewer than five cards
DecisionFails(g, p, bot) ==
    \/ bot.cls = "Player"
    \/ /\ ~p.folded
       /\ ~p.is_all_in
       /\ \/ g.community_cards = <<>> /\ Len(p.hand) < 2
          \/ g.community_cards # <<>> /\ Len(p.hand) + Len(g.community_cards) < 5

\* the label evaluate_hand gives the cards of seat i, where it can be called
HandLabel(g, i) ==
    IF g.community_cards = <<>> \/ Len(g.players[i].hand) + Len(g.community_cards) < 5
    THEN "none"
    ELSE IF Len(g.players[i].hand) + Len(g.community_cards) = 7 THEN HandValue(g, i)[2]
    ELSE evaluate_hand(g.players[i].hand \o g.community_cards)[2]

(* ---------------------------------------------------------------------- *)
(* PokerGame.bot_action                                                    *)
(* ---------------------------------------------------------------------- *)
\* type(self.players[0]).__bases__[0] and isinstance
Base(cls) == IF cls = "BotPlayer" THEN "Player" ELSE "object"
IsInstance(cls, of) == of = "object" \/ of = cls \/ (cls = "BotPlayer" /\ of = "Player")

\* a default that folds whatever the bets are
DefaultAction_AlwaysFold(g) == Action("fold", 0)

\* the action taken when decide_action gave none within the time limit
DefaultAction(g) ==
    IF g.current_bet = 0 \/ g.current_bet = g.players[g.current_player_idx].current_bet
    THEN Action("check", 0)
    ELSE Action("fold", 0)

NoDecision == [outcome |-> "none", action |-> Action("none", 0), stack |-> 0]

\* what the try block of bot_action leaves in action, and how: decide_action
\* returns None on every call until the time limit when the player is folded
\* or all-in, and otherwise returns an action on the first call
Decision(g, p, bot, hand_type, r) ==
    IF DecisionFails(g, p, bot)
    THEN [outcome |-> "error", action |-> Action("fold", 0), stack |-> p.chips]
    ELSE IF decide_action(g, p, bot, hand_type, r) = None
    THEN [outcome |-> "timeout", action |-> DefaultAction(g), stack |-> p.chips]
    ELSE [outcome |-> "decided", action |-> decide_action(g, p, bot, hand_type, r),
          stack |-> p.chips]

\* the decisions the draws can lead to
Decisions(g, p, bot, hand_type) == {Decision(g, p, bot, hand_type, r) : r \in DrawVectors}

\* the dispatch at the end of bot_action
Dispatch(g, action) ==
    CASE action.type = "fold" -> fold(g)
      [] action.type = "check" -> check(g)
      [] action.type = "call" -> call(g)
      [] action.type = "bet" -> bet(g, action.amount)
      [] action.type = "raise" -> raise_bet(g, action.amount)
      [] OTHER -> g

\* the guard of bot_action
IsBot(g, traits) == IsInstance(traits[g.current_player_idx].cls, Base(traits[0].cls))

bot_action(g, traits, decision) == IF ~IsBot(g, traits) THEN g ELSE Dispatch(g, decision.action)

\* no seat has acted and no bet or raise was made: a betting round begins
NoTurns == [acted |-> {}, raised |-> FALSE]

\* the history of the betting round after a call that reached the handler
\* named: a call that changed nothing leaves it, the end of the round or of
\* the hand starts it again, a bet or raise empties the set of seats that acted,
\* and any other action adds the seat that acted
TurnsAfter(handler) ==
    IF ~call_log'.changed THEN turns
    ELSE IF call_log'.closes # <<>> \/ call_log'.trail # <<>> \/ hand_over' THEN NoTurns
    ELSE IF handler \in {"bet", "raise_bet", "raise"} THEN [acted |-> {}, raised |-> TRUE]
    ELSE [turns EXCEPT !.acted = @ \cup {current_player_idx}]

\* the game g becomes the state; op is logged as the call made, with whether
\* it changed the game
Becomes(g, op) ==
    /\ players' = g.players
    /\ deck' = g.deck
    /\ community_cards' = g.community_cards
    /\ pot' = g.pot
    /\ current_bet' = g.current_bet
    /\ dealer_idx' = g.dealer_idx
    /\ current_player_idx' = g.current_player_idx
    /\ phase' = g.phase
    /\ hand_over' = g.hand_over
    /\ winner' = g.winner
    /\ last_raise_idx' = g.last_raise_idx
    /\ eval' = eval
    /\ call_log' = [op |-> op, changed |-> g # Game,
                    evaluations |-> g.evaluations, awards |-> g.awards, trail |-> g.trail,
                    closes |-> g.closes]

\* PokerGame(players) with 2..MaxPlayers players, each Player(name, chips)
Init ==
    /\ \E n \in 2..MaxPlayers :
          \E stacks \in [0..(n - 1) -> StartStacks] :
             players = [i \in 0..(n - 1) |-> NewPlayer(stacks[i])]
    /\ deck = reset
    /\ community_cards = <<>>
    /\ pot = 0
    /\ current_bet = 0
    /\ dealer_idx = 0
    /\ current_player_idx = 0
    /\ phase = "none"
    /\ hand_over = TRUE
    /\ winner = None
    /\ last_raise_idx = -1
    /\ hands = 0
    /\ stacks0 = TotalChips(players)
    /\ dealers = <<>>
    /\ turns = NoTurns
    /\ eval = [cards |-> <<>>, value |-> None, reorders |-> 0]
    /\ bots = [traits |-> [i \in DOMAIN players |-> PlainPlayer], decision |-> NoDecision]
    /\ call_log = [op |-> "init", changed |-> FALSE, evaluations |-> 0, awards |-> <<>>,
                    trail |-> <<>>, closes |-> <<>>]

\* the driver deals the next hand once the hand before is over
StartNewHand ==
    /\ hand_over
    /\ hands < MaxHands
    /\ \E k \in 1..NumShuffles : Becomes(start_new_hand(Game, k), "start_new_hand")
    /\ hands' = hands + 1
    /\ stacks0' = TotalChips(players)
    /\ dealers' = Append(dealers, dealer_idx')
    /\ turns' = NoTurns
    /\ bots' = bots

Fold ==
    /\ Becomes(fold(Game), "fold")
    /\ turns' = TurnsAfter("fold")
    /\ UNCHANGED <<hands, stacks0, dealers, bots>>

Check ==
    /\ Becomes(check(Game), "check")
    /\ turns' = TurnsAfter("check")
    /\ UNCHANGED <<hands, stacks0, dealers, bots>>

Call ==
    /\ Becomes(call(Game), "call")
    /\ turns' = TurnsAfter("call")
    /\ UNCHANGED <<hands, stacks0, dealers, bots>>

Bet ==
    /\ \E amount \in Amounts : Becomes(bet(Game, amount), "bet")
    /\ turns' = TurnsAfter("bet")
    /\ UNCHANGED <<hands, stacks0, dealers, bots>>

RaiseBet ==
    /\ \E amount \in Amounts : Becomes(raise_bet(Game, amount), "raise_bet")
    /\ turns' = TurnsAfter("raise_bet")
    /\ UNCHANGED <<hands, stacks0, dealers, bots>>

Next == StartNewHand \/ Fold \/ Check \/ Call \/ Bet \/ RaiseBet

Spec == Init /\ [][Next]_vars

(* ---------------------------------------------------------------------- *)
(* HandEvaluator.evaluate_hand called on hands of 5 to 7 cards, in the     *)
(* order given and with cards exchanged                                    *)
(* ---------------------------------------------------------------------- *)
\* Card(suit, rank), by the positions of suit and rank in SUITS and RANKS
\* counted from 0
Card(suit, rank) == NumRanks * suit + rank

\* the hands evaluate_hand is called on
EvalHands ==
    {<<Card(3, 12), Card(0, 0), Card(1, 1), Card(2, 2), Card(0, 3)>>,   \* A 2 3 4 5
     <<Card(0, 12), Card(0, 0), Card(0, 1), Card(0, 2), Card(0, 3)>>,   \* A 2 3 4 5 of hearts
     <<Card(0, 0), Card(1, 1), Card(2, 2), Card(0, 3), Card(3, 4)>>,    \* 2 3 4 5 6
     <<Card(3, 8), Card(3, 9), Card(3, 10), Card(3, 11), Card(3, 12)>>, \* 10 J Q K A of spades
     <<Card(3, 12), Card(0, 12), Card(3, 11), Card(1, 10), Card(2, 9)>>,  \* A A K Q J
     <<Card(3, 3), Card(0, 3), Card(1, 4), Card(2, 5), Card(0, 6), Card(3, 7)>>,  \* 5 5 6 7 8 9
     <<Card(3, 12), Card(0, 0), Card(1, 1), Card(2, 2), Card(0, 3), Card(3, 4)>>, \* A 2 3 4 5 6
     <<Card(0, 11), Card(1, 11), Card(0, 7), Card(3, 7), Card(1, 7), Card(0, 0), Card(0, 3)>>,
                                                                        \* K K 9 9 9 2 5
     <<Card(0, 5), Card(0, 6), Card(0, 7), Card(3, 8), Card(1, 9), Card(0, 0), Card(0, 11)>>,
                                                      \* 7 8 9 10 J 2 K with five hearts
     <<Card(0, 10), Card(1, 10), Card(2, 10), Card(3, 10), Card(0, 1), Card(1, 6), Card(2, 12)>>,
                                                                        \* Q Q Q Q 3 8 A
     <<Card(0, 12), Card(1, 12), Card(2, 11), Card(3, 11), Card(0, 10), Card(1, 10), Card(2, 0)>>,
                                                                        \* A A K K Q Q 2
     <<Card(3, 12), Card(0, 12), Card(1, 0), Card(2, 5), Card(3, 7), Card(0, 9), Card(1, 1)>>}
                                                                        \* A A 2 7 9 J 3

\* the five-card hands evaluate_hand is called on: every five cards out of
\* 10 J Q K A of the four suits, and out of 2 3 4 5 6 9 A of hearts and spades
HighCards == [i \in 1..20 |-> Card((i - 1) \div 5, 8 + ((i - 1) % 5))]
LowRanks == <<0, 1, 2, 3, 4, 7, 12>>
LowCards == [i \in 1..14 |-> Card(3 * ((i - 1) \div 7), LowRanks[1 + ((i - 1) % 7)])]

FiveOutOf(cards) ==
    LET combos == IndexCombinations(1, Len(cards), 5)
    IN  {[i \in 1..5 |-> cards[combos[k][i]]] : k \in 1..Len(combos)}

FiveCardHands == FiveOutOf(HighCards) \cup FiveOutOf(LowCards)

\* the two seven-card hands of the example: A A and K K on 2 7 9 J 3
AcesOnBoard ==
    <<Card(3, 12), Card(0, 12), Card(1, 0), Card(2, 5), Card(3, 7), Card(0, 9), Card(1, 1)>>
KingsOnBoard ==
    <<Card(3, 11), Card(0, 11), Card(1, 0), Card(2, 5), Card(3, 7), Card(0, 9), Card(1, 1)>>

\* the cards with those at positions i and j exchanged
Exchanged(cards, i, j) ==
    [k \in 1..Len(cards) |-> IF k = i THEN cards[j] ELSE IF k = j THEN cards[i] ELSE cards[k]]

EvalInit ==
    /\ players = [i \in 0..1 |-> NewPlayer(big_blind)]
    /\ deck = reset
    /\ community_cards = <<>>
    /\ pot = 0
    /\ current_bet = 0
    /\ dealer_idx = 0
    /\ current_player_idx = 0
    /\ phase = "none"
    /\ hand_over = TRUE
    /\ winner = None
    /\ last_raise_idx = -1
    /\ hands = 0
    /\ stacks0 = TotalChips(players)
    /\ dealers = <<>>
    /\ turns = NoTurns
    /\ eval \in {[cards |-> h, value |-> None, reorders |-> 0] : h \in EvalHands}
    /\ bots = [traits |-> [i \in DOMAIN players |-> PlainPlayer], decision |-> NoDecision]
    /\ call_log = [op |-> "init", changed |-> FALSE, evaluations |-> 0, awards |-> <<>>,
                    trail |-> <<>>, closes |-> <<>>]

\* the caller hands the cards over in another order
Reorder ==
    /\ eval.reorders < MaxReorders
    /\ \E i, j \in 1..Len(eval.cards) :
          /\ i < j
          /\ eval' = [cards |-> Exchanged(eval.cards, i, j), value |-> None,
                      reorders |-> eval.reorders + 1]
    /\ UNCHANGED <<gameVars, hands, stacks0, dealers, turns, bots, call_log>>

\* HandEvaluator.evaluate_hand(cards)
Evaluate ==
    /\ eval.value = None
    /\ eval' = [eval EXCEPT !.value = evaluate_hand(eval.cards)]
    /\ UNCHANGED <<gameVars, hands, stacks0, dealers, turns, bots, call_log>>

EvalNext == Reorder \/ Evaluate

EvalSpec == EvalInit /\ [][EvalNext]_vars

\* evaluate_hand called once on each of the five-card hands and on the hands
\* of the example
FiveInit ==
    /\ players = [i \in 0..1 |-> NewPlayer(big_blind)]
    /\ deck = reset
    /\ community_cards = <<>>
    /\ pot = 0
    /\ current_bet = 0
    /\ dealer_idx = 0
    /\ current_player_idx = 0
    /\ phase = "none"
    /\ hand_over = TRUE
    /\ winner = None
    /\ last_raise_idx = -1
    /\ hands = 0
    /\ stacks0 = TotalChips(players)
    /\ dealers = <<>>
    /\ turns = NoTurns
    /\ eval \in {[cards |-> h, value |-> None, reorders |-> 0] :
                    h \in FiveCardHands \cup {AcesOnBoard, KingsOnBoard}}
    /\ bots = [traits |-> [i \in DOMAIN players |-> PlainPlayer], decision |-> NoDecision]
    /\ call_log = [op |-> "init", changed |-> FALSE, evaluations |-> 0, awards |-> <<>>,
                    trail |-> <<>>, closes |-> <<>>]

FiveNext == Evaluate

FiveSpec == FiveInit /\ [][FiveNext]_vars

(* ---------------------------------------------------------------------- *)
(* Several hands in a row: PokerGame played over MaxRotationHands hands,   *)
(* each hand ended by folds                                                *)
(* ---------------------------------------------------------------------- *)
\* the driver deals the next hand once the hand before is over
StartNextHand ==
    /\ hand_over
    /\ hands < MaxRotationHands
    /\ \E k \in 1..NumShuffles : Becomes(start_new_hand(Game, k), "start_new_hand")
    /\ hands' = hands + 1
    /\ stacks0' = TotalChips(players)
    /\ dealers' = Append(dealers, dealer_idx')
    /\ turns' = NoTurns
    /\ bots' = bots

RotationNext == StartNextHand \/ Fold

RotationSpec == Init /\ [][RotationNext]_vars

(* ---------------------------------------------------------------------- *)
(* Properties                                                              *)
(* ---------------------------------------------------------------------- *)
Range(q) == {q[k] : k \in 1..Len(q)}
Actor == players[current_player_idx]
\* what the player on turn owes: table current bet - its current_bet
Owed == current_bet - Actor.current_bet
\* the entry point left the betting round open: same phase, hand not over
RoundStaysOpen(g) == g.phase = phase /\ ~g.hand_over
\* a hand is in progress in its ordinary sense: it is not over, the showdown
\* has not been reached and the player on turn is able to act
OrdinaryTurn == ~hand_over /\ phase # "showdown" /\ can_make_action(Actor)

\* C1 (as claimed): from start_new_hand on, the chips of all players plus the
\* pot always add up to the chips the players had when the hand started
C1_ChipsPlusPotConserved == hands > 0 => TotalChips(players) + pot = stacks0

\* C2: a fold that leaves exactly one non-folded player ends the hand at once:
\* hand_over is set, the winner is that player, that player's stack has grown
\* by the whole pot, and evaluate_hand was not called
C2_FoldToLastPlayerWins ==
    LET g == fold(Game)
        left == ActivePlayers(g)
    IN  (~hand_over /\ Len(left) = 1) =>
            /\ g.hand_over
            /\ g.winner = <<left[1]>>
            /\ g.players[left[1]].chips = players[left[1]].chips + pot
            /\ g.evaluations = 0
C2_Witness ==
    /\ call_log.op = "fold" /\ call_log.changed
    /\ hand_over
    /\ Len(ActivePlayers(Game)) = 1
    /\ winner = ActivePlayers(Game)
    /\ pot > 0

\* hand value v ranks above hand value w: lower category index, or the same
\* category and a lexicographically greater tie-breaker sequence
RanksAbove(v, w) == v[1] < w[1] \/ (v[1] = w[1] /\ ListGT(v[3], w[3]))
\* the players of the set among that no player among them outranks
BestPlayers(g, among) ==
    {i \in among : \A j \in among : ~RanksAbove(HandValue(g, j), HandValue(g, i))}

\* C3: in every payout made on evaluated hands (two or more non-folded
\* players), the winners are exactly the non-folded players whose
\* (category, tie-breakers) no other non-folded player outranks, only they
\* gain chips, and each of them gains at least pot // (number of winners)
C3_WinnersAreTheBestHands ==
    \A k \in 1..Len(call_log.awards) :
        LET e == call_log.awards[k]
            best == BestPlayers(Game, Range(e.active))
        IN  e.evaluated =>
                /\ Len(e.active) >= 2
                /\ Range(e.winners) = best
                /\ \A i \in Seats(Game) :
                      IF i \in best
                      THEN e.gains[i] >= e.pot \div Cardinality(best)
                      ELSE e.gains[i] = 0
                /\ (e.pot >= Cardinality(best) => {i \in Seats(Game) : e.gains[i] > 0} = best)
C3_Witness ==
    /\ phase = "showdown"
    /\ call_log.awards # <<>>
    /\ call_log.awards[1].evaluated
    /\ Len(ActivePlayers(Game)) = 3
    /\ Len(winner) = 2
    /\ Range(winner) = BestPlayers(Game, Range(ActivePlayers(Game)))

\* the winner that comes first in seat order from the seat to the dealer's left
FirstFromDealersLeft(g, winners) ==
    LET n == NumSeats(g)
        Distance(i) == (i + n - ((g.dealer_idx + 1) % n)) % n
    IN  CHOOSE i \in winners : \A j \in winners : Distance(i) <= Distance(j)

\* C4 (as claimed): when a pot is split among k tied winners, every winner
\* gains pot // k and the remainder pot mod k goes to the winner that comes
\* first in seat order from the dealer's left
C4_RemainderToFirstFromDealersLeft ==
    \A k \in 1..Len(call_log.awards) :
        LET e == call_log.awards[k]
            first == FirstFromDealersLeft(Game, Range(e.winners))
        IN  e.evaluated =>
                \A i \in Range(e.winners) :
                    e.gains[i] = (e.pot \div Len(e.winners))
                                 + (IF i = first THEN e.pot % Len(e.winners) ELSE 0)

\* C5 (as claimed): unless the current_bet of the player on turn equals the
\* table current bet, check changes nothing
C5_CheckNoOpUnlessBetsEqual ==
    [][(call_log'.op = "check" /\ Actor.current_bet # current_bet) => UNCHANGED gameVars]_vars

\* C6: bet(amount) with a table current bet above 0 changes nothing, for every
\* amount
C6_BetNoOpWhenBetExists == current_bet > 0 => \A amount \in Amounts : bet(Game, amount) = Game
C6_Witness ==
    /\ call_log.op = "bet" /\ ~call_log.changed
    /\ ~hand_over
    /\ current_bet > 0
    /\ can_make_action(Actor)


\* the chips bet(requested) is to commit: max(requested, min_bet), clamped to
\* the stack
BetCommit(requested) == Min(Max(requested, min_bet), Actor.chips)

RaiseCommit(requested) == Min(Max(Owed + requested, 2 * min_bet), Actor.chips)

C10_WinnerSetOnce ==
    [][(winner # None /\ hands' = hands) =>
           (winner' = winner /\ \A i \in Seats(Game) : players'[i].chips = players[i].chips)]_vars

\* every phase of the path is the successor in PHASES of the phase before it
OneStepAtATime(path) ==
    \A k \in 1..(Len(path) - 1) : PhaseIndex(path[k + 1]) = PhaseIndex(path[k]) + 1

\* C11: within a hand, the values a call assigns to phase, one after the
\* other, are each the successor in PHASES of the value before (never
\* backward, never skipping a value), the phase the call leaves is the last of
\* them, and a call that ends the hand with one non-folded player left leaves
\* the phase as it was
C11_PhaseMovesForwardOneStep ==
    [][hands' = hands =>
          /\ OneStepAtATime(<<phase>> \o call_log'.trail)
          /\ phase' = (<<phase>> \o call_log'.trail)[Len(call_log'.trail) + 1]
          /\ (/\ ~hand_over
              /\ hand_over'
              /\ Cardinality({i \in DOMAIN players' : ~players'[i].folded}) = 1)
                 => phase' = phase]_vars
C11_Witness ==
    /\ call_log.op = "call"
    /\ call_log.trail = <<"flop", "turn", "river", "showdown">>
    /\ phase = "showdown"

\* the number of community cards of a phase
CommunityCardsIn(ph) ==
    IF ph = "preflop" THEN 0
    ELSE IF ph = "flop" THEN 3
    ELSE IF ph = "turn" THEN 4
    ELSE 5

\* C12: in every state of a hand the number of community cards is the one of
\* the phase (0, 3, 4, 5, 5), and within a hand the community cards a call
\* leaves start with the community cards it found
C12_CommunityCardsFollowPhase ==
    [][/\ hands' > 0 => Len(community_cards') = CommunityCardsIn(phase')
       /\ hands' = hands =>
             /\ Len(community_cards') >= Len(community_cards)
             /\ SubSeq(community_cards', 1, Len(community_cards)) = community_cards]_vars
C12_Witness ==
    /\ phase = "river"
    /\ call_log.trail = <<"river">>
    /\ Len(community_cards) = 5
    /\ ~hand_over

\* C13: right after start_new_hand the seat at dealer+1 has posted
\* min(small_blind, chips), the seat at dealer+2 has posted min(big_blind,
\* chips), the pot is the sum of both, the table current bet is the big blind
\* posted, every other current_bet is 0 and no player is folded or all-in
C13_BlindsPosted ==
    hand_over =>
        \A g \in {start_new_hand(Game, k) : k \in 1..NumShuffles} :
            LET n == NumSeats(g)
                sb == (g.dealer_idx + 1) % n
                bb == (g.dealer_idx + 2) % n
                sb_posted == Min(small_blind, players[sb].chips)
                bb_posted == Min(big_blind, players[bb].chips)
            IN  /\ g.players[sb].current_bet = sb_posted
                /\ g.players[sb].chips = players[sb].chips - sb_posted
                /\ g.players[bb].current_bet = bb_posted
                /\ g.players[bb].chips = players[bb].chips - bb_posted
                /\ g.pot = sb_posted + bb_posted
                /\ g.current_bet = bb_posted
                /\ \A i \in Seats(g) :
                      /\ i \notin {sb, bb} =>
                            /\ g.players[i].current_bet = 0
                            /\ g.players[i].chips = players[i].chips
                      /\ ~g.players[i].folded
                      /\ ~g.players[i].is_all_in
C13_Witness ==
    /\ call_log.op = "start_new_hand"
    /\ NumSeats(Game) = 3
    /\ pot = small_blind + 3
    /\ current_bet = 3
    /\ players[(dealer_idx + 1) % 3].current_bet = small_blind
    /\ players[(dealer_idx + 2) % 3].current_bet = 3
    /\ players[(dealer_idx + 2) % 3].chips = 0
    /\ players[dealer_idx].current_bet = 0

\* amounts place_bet is tried with for a player: around its chips, and some
\* of the amounts the entry points are called with
PlaceBetAmounts(p) == {a \in {0, 1, p.chips - 1, p.chips, p.chips + 1} \union Amounts : a >= 0}

\* C15: place_bet(amount) with amount > chips leaves chips 0, sets is_all_in,
\* raises current_bet by the chips the player had and returns those chips;
\* with 0 <= amount <= chips it takes amount off the chips, raises current_bet
\* by amount and returns amount
C15_PlaceBetClamps ==
    \A i \in Seats(Game) :
        \A amount \in PlaceBetAmounts(players[i]) :
            LET p == players[i]
                q == place_bet(p, amount)
            IN  IF amount > p.chips
                THEN /\ q.chips = 0
                     /\ q.is_all_in
                     /\ q.current_bet = p.current_bet + p.chips
                     /\ PlacedAmount(p, amount) = p.chips
                ELSE /\ q.chips = p.chips - amount
                     /\ q.current_bet = p.current_bet + amount
                     /\ PlacedAmount(p, amount) = amount
C15_Witness ==
    /\ call_log.op = "raise_bet" /\ call_log.changed
    /\ ~hand_over
    /\ \E i \in Seats(Game) :
          /\ players[i].is_all_in
          /\ players[i].chips = 0
          /\ players[i].current_bet = current_bet
          /\ last_raise_idx = i

\* C14: the dealer of every hand is the seat after the dealer of the hand
\* before (after seat 0 for the first hand), modulo the number of players, so
\* any n hands in a row have n different dealers; and start_new_hand leaves
\* the seat after the big blind on turn and the big blind as last aggressor
C14_DealerRotates ==
    LET n == NumSeats(Game)
    IN  /\ \A h \in 1..Len(dealers) :
              dealers[h] = ((IF h = 1 THEN 0 ELSE dealers[h - 1]) + 1) % n
        /\ \A h \in 1..(Len(dealers) - n + 1) :
              /\ {dealers[j] : j \in h..(h + n - 1)} = Seats(Game)
              /\ \A i \in Seats(Game) :
                    Cardinality({j \in h..(h + n - 1) : dealers[j] = i}) = 1
        /\ call_log.op = "start_new_hand" =>
              /\ dealer_idx = dealers[Len(dealers)]
              /\ last_raise_idx = (dealer_idx + 2) % n
              /\ current_player_idx = (last_raise_idx + 1) % n
C14_Witness ==
    /\ call_log.op = "start_new_hand"
    /\ NumSeats(Game) = 3
    /\ dealers = <<1, 2, 0, 1, 2, 0>>
    /\ \E i \in Seats(Game) : players[i].chips = 0

(* ---------------------------------------------------------------------- *)
(* A table of bots: every turn is taken through bot_action                 *)
(* ---------------------------------------------------------------------- *)
\* stacks the bots are constructed with
BotStacks == {3, 25}

BotInit ==
    /\ \E n \in 2..MaxPlayers :
          /\ \E stacks \in [0..(n - 1) -> BotStacks] :
                players = [i \in 0..(n - 1) |-> NewPlayer(stacks[i])]
          /\ \E traits \in [0..(n - 1) -> BotKinds] :
                bots = [traits |-> traits, decision |-> NoDecision]
    /\ deck = reset
    /\ community_cards = <<>>
    /\ pot = 0
    /\ current_bet = 0
    /\ dealer_idx = 0
    /\ current_player_idx = 0
    /\ phase = "none"
    /\ hand_over = TRUE
    /\ winner = None
    /\ last_raise_idx = -1
    /\ hands = 0
    /\ stacks0 = TotalChips(players)
    /\ dealers = <<>>
    /\ turns = NoTurns
    /\ eval = [cards |-> <<>>, value |-> None, reorders |-> 0]
    /\ call_log = [op |-> "init", changed |-> FALSE, evaluations |-> 0, awards |-> <<>>,
                    trail |-> <<>>, closes |-> <<>>]

\* game.bot_action()
BotAction ==
    /\ \E d \in Decisions(Game, Actor, bots.traits[current_player_idx],
                          HandLabel(Game, current_player_idx)) :
          /\ Becomes(bot_action(Game, bots.traits, d), "bot_action")
          /\ bots' = [bots EXCEPT !.decision = IF IsBot(Game, bots.traits) THEN d ELSE NoDecision]
          /\ turns' = TurnsAfter(d.action.type)
    /\ UNCHANGED <<hands, stacks0, dealers>>

BotNext == StartNewHand \/ BotAction

BotSpec == BotInit /\ [][BotNext]_vars

(* ---------------------------------------------------------------------- *)
(* C16..C18: HandEvaluator                                                 *)
(* ---------------------------------------------------------------------- *)
\* a result of evaluate_hand with the five cards taken as a set
AsSet(v) == <<v[1], v[2], v[3], Range(v[4])>>

\* C16 (as stated): the result of evaluate_hand, that is category, type label,
\* tie breakers and the best five cards (compared as a set of cards), is the
\* same when any two cards of the 5 to 7 cards given change places.
C16_SameResultInEveryOrder ==
    eval.value # None =>
        \A i, j \in 1..Len(eval.cards) :
            i < j => AsSet(evaluate_hand(Exchanged(eval.cards, i, j))) = AsSet(eval.value)

\* the cards at the positions in S, in the order of the positions
RECURSIVE CardsAt(_, _)
CardsAt(cards, S) ==
    IF S = {} THEN <<>>
    ELSE LET i == CHOOSE x \in S : \A y \in S : x <= y
         IN  <<cards[i]>> \o CardsAt(cards, S \ {i})

\* the (category, label, tie breakers) of every 5-card subset of the cards
SubsetValues(cards) ==
    {_evaluate_five_card_hand(SortCardsDesc(CardsAt(cards, S))) :
        S \in {T \in SUBSET (1..Len(cards)) : Cardinality(T) = 5}}

\* C17: evaluate_hand returns the category and tie breakers of the best 5-card
\* subset of its 5 to 7 cards: no subset has a lower category index, none of
\* the same category has lexicographically greater tie breakers, and the five
\* cards returned are five different cards of the input that evaluate to the
\* returned category and tie breakers.
C17_BestOfAllFiveCardSubsets ==
    eval.value # None =>
        /\ \A w \in SubsetValues(eval.cards) :
              /\ w[1] >= eval.value[1]
              /\ w[1] = eval.value[1] => ~ListGT(w[3], eval.value[3])
        /\ Len(eval.value[4]) = 5
        /\ Cardinality(Range(eval.value[4])) = 5
        /\ Range(eval.value[4]) \subseteq Range(eval.cards)
        /\ _evaluate_five_card_hand(eval.value[4]) = SubSeq(eval.value, 1, 3)

\* seven cards holding both a straight and a flush were evaluated after their
\* order changed: the flush, found in a later combination, was kept
C17_Witness ==
    /\ eval.value # None
    /\ eval.reorders > 0
    /\ Len(eval.cards) = 7
    /\ eval.value[2] = "Flush"
    /\ \E w \in SubsetValues(eval.cards) : w[2] = "Straight"

WheelValues == {0, 1, 2, 3, 12}
ValueSet(cards) == {get_value(cards[i]) : i \in 1..Len(cards)}

\* the wheel with its ace replaced by the six of the ace's suit
SixHigh(cards) ==
    [i \in 1..Len(cards) |-> IF get_value(cards[i]) = 12 THEN cards[i] - 8 ELSE cards[i]]

\* C18: five cards valued 2 3 4 5 A evaluate to Straight, or Straight Flush
\* when of one suit, with tie breakers [3]; the same cards with a six in place
\* of the ace evaluate to the same category with tie breakers [4] and rank
\* above them; and six cards A 2 3 4 5 6 evaluate to the six-high straight.
C18_WheelIsFiveHigh ==
    eval.value # None =>
        /\ (Len(eval.cards) = 5 /\ ValueSet(eval.cards) = WheelValues) =>
              /\ eval.value[1] = (IF SameSuit(eval.cards) THEN 1 ELSE 5)
              /\ eval.value[2] = (IF SameSuit(eval.cards) THEN "Straight Flush" ELSE "Straight")
              /\ eval.value[3] = <<3>>
              /\ evaluate_hand(SixHigh(eval.cards))[1] = eval.value[1]
              /\ evaluate_hand(SixHigh(eval.cards))[3] = <<4>>
              /\ RanksAbove(evaluate_hand(SixHigh(eval.cards)), eval.value)
              /\ ~RanksAbove(eval.value, evaluate_hand(SixHigh(eval.cards)))
        /\ (ValueSet(eval.cards) = WheelValues \cup {4} /\ eval.value[1] = 5) =>
              eval.value[3] = <<4>>

\* the suited wheel was evaluated with the ace moved from the front
C18_Witness ==
    /\ eval.value # None
    /\ eval.reorders > 0
    /\ ValueSet(eval.cards) = WheelValues
    /\ SameSuit(eval.cards)
    /\ get_value(eval.cards[1]) # 12
    /\ eval.value[3] = <<3>>

(* ---------------------------------------------------------------------- *)
(* C19, C20: the bots                                                      *)
(* ---------------------------------------------------------------------- *)
\* the decisions decide_action can return to bot_action in this state
ActorDecisions ==
    {d \in Decisions(Game, Actor, bots.traits[current_player_idx],
                     HandLabel(Game, current_player_idx)) : d.outcome = "decided"}

\* C19 (as stated): every bet or raise amount decide_action returns is at least
\* the table minimum bet and at most the stack of the agent.
C19_AmountWithinMinimumAndStack ==
    \A d \in ActorDecisions :
        d.action.type \in {"bet", "raise"} =>
            /\ d.action.amount >= min_bet
            /\ d.action.amount <= Actor.chips

\* C19 (amended): every bet or raise amount decide_action returns is at least
\* the table minimum bet and at most the larger of the table minimum bet and
\* the stack of the agent: at most the stack if the stack reaches the minimum,
\* and the minimum itself if it does not.
C19_AmountFlooredThenCapped ==
    \A d \in ActorDecisions :
        d.action.type \in {"bet", "raise"} =>
            /\ d.action.amount >= min_bet
            /\ d.action.amount <= Max(min_bet, Actor.chips)
            /\ Actor.chips >= min_bet => d.action.amount <= Actor.chips
            /\ Actor.chips < min_bet => d.action.amount = min_bet

\* a bot with more chips than the minimum decided to raise by its whole stack:
\* the cap acted
C19_Witness ==
    /\ call_log.op = "bot_action"
    /\ bots.decision.outcome = "decided"
    /\ bots.decision.action.type = "raise"
    /\ bots.decision.stack > min_bet
    /\ bots.decision.action.amount = bots.decision.stack

\* the game without what the model logs about the call
Unlogged(g) ==
    [g EXCEPT !.evaluations = 0, !.awards = <<>>, !.trail = <<>>, !.closes = <<>>]

\* bot_action substituted an action for the decision it did not get
Substituted == call_log'.op = "bot_action" /\ bots'.decision.outcome \in {"timeout", "error"}

\* the substitution rule: check when nothing is to call, fold otherwise and
\* fold after an error, applied through fold() or check()
SubstitutionRule ==
    /\ bots'.decision.outcome = "timeout" =>
          bots'.decision.action =
              (IF current_bet = 0 \/ current_bet = Actor.current_bet
               THEN Action("check", 0) ELSE Action("fold", 0))
    /\ bots'.decision.outcome = "error" => bots'.decision.action = Action("fold", 0)
    /\ Game' = Unlogged(IF bots'.decision.action.type = "fold" THEN fold(Game) ELSE check(Game))

\* C20 (as stated): without a decision within the time limit bot_action
\* substitutes check if the agent has nothing to call and fold otherwise, after
\* an error it substitutes fold, the substitute is applied through fold() or
\* check(), and it always changes the game state.
C20_SubstituteAlwaysActs ==
    [][Substituted => (SubstitutionRule /\ call_log'.changed)]_vars

\* C20 (amended): the same substitution, which changes the game state exactly
\* when a hand is in progress; once the hand is over the substituted fold or
\* check leaves the game as it is.
C20_SubstituteActsWhileHandIsOpen ==
    [][Substituted => (SubstitutionRule /\ (call_log'.changed <=> ~hand_over))]_vars

\* the hand was over with a bet the current player had not matched; the player,
\* folded or all-in, gave no decision, and bot_action substituted a fold
C20_Witness ==
    /\ call_log.op = "bot_action"
    /\ bots.decision.outcome = "timeout"
    /\ bots.decision.action = Action("fold", 0)
    /\ hand_over
    /\ ~call_log.changed

(* ---------------------------------------------------------------------- *)
(* C21..C30: bets, turns and cards during a hand                           *)
(* ---------------------------------------------------------------------- *)
\* a hand is in progress: start_new_hand was called and the hand is not over
HandInProgress == hands > 0 /\ ~hand_over

\* C22 (as stated): while a hand is in progress no non-folded player has a
\* current_bet greater than the table current bet.
C22_TableBetIsTheMaximum ==
    HandInProgress =>
        \A i \in Seats(Game) : ~players[i].folded => players[i].current_bet <= current_bet

\* C23 (as stated): while a hand is in progress the seat under the
\* current-actor pointer is not folded, not all-in and has chips.
C23_ActorCanAct == HandInProgress => can_make_action(Actor)

\* the seats not folded among the given players
Unfolded(ps) == {i \in DOMAIN ps : ~ps[i].folded}

\* C21 (as stated): each time next_player closes a betting round with two or
\* more non-folded players, every non-folded player who can act has a
\* current_bet equal to the table current bet, and every non-folded player who
\* is all-in or out of chips has a current_bet of at most the table current bet.
C21_BetsMatchedWhenRoundCloses ==
    \A k \in 1..Len(call_log.closes) :
        LET at == call_log.closes[k]
        IN  Cardinality(Unfolded(at.players)) >= 2 =>
                \A i \in Unfolded(at.players) :
                    IF can_make_action(at.players[i])
                    THEN at.players[i].current_bet = at.current_bet
                    ELSE at.players[i].current_bet <= at.current_bet

\* fold, check, call, bet or raise_bet was called and changed the game
Acted == call_log'.op \in {"fold", "check", "call", "bet", "raise_bet"} /\ call_log'.changed

\* the call left the betting round open: next_player did not call next_phase
\* and the hand did not end
RoundLeftOpen == call_log'.closes = <<>> /\ call_log'.trail = <<>> /\ ~hand_over'

\* the seats after seat i in clockwise order, seat i itself last
ClockwiseFrom(ps, i) ==
    LET n == Cardinality(DOMAIN ps) IN [k \in 1..n |-> (i + k) % n]

\* the first seat after seat i, clockwise, that can act; -1 if there is none
FirstAbleAfter(ps, i) ==
    LET able == SelectSeq(ClockwiseFrom(ps, i), LAMBDA j : can_make_action(ps[j]))
    IN  IF able = <<>> THEN -1 ELSE able[1]

\* C24: after a fold, check, call, bet or raise that leaves the betting round
\* open, the current actor is the first seat clockwise after the seat that
\* acted that can act, and it is another seat than the one that acted.
C24_TurnPassesToNextAbleSeat ==
    [][(Acted /\ RoundLeftOpen) =>
          /\ current_player_idx' = FirstAbleAfter(players', current_player_idx)
          /\ current_player_idx' # current_player_idx]_vars

\* with three players a seat raised and the turn passed over the next seat,
\* which cannot act, to the third
C24_Witness ==
    /\ call_log.op = "raise_bet"
    /\ call_log.changed
    /\ call_log.closes = <<>>
    /\ call_log.trail = <<>>
    /\ ~hand_over
    /\ NumSeats(Game) = 3
    /\ last_raise_idx = (current_player_idx + 1) % 3
    /\ ~can_make_action(players[(current_player_idx + 2) % 3])
    /\ can_make_action(Actor)

\* the seats that acted since the last bet or raise once the handler of this
\* step has run, and whether the round then has a bet or raise
Aggressive == call_log'.op \in {"bet", "raise_bet"}
ActedNow == IF Aggressive THEN {} ELSE turns.acted \cup {current_player_idx}
RaisedNow == turns.raised \/ Aggressive

\* the round closes in this step with at least two players left in the hand
ClosesContested ==
    /\ call_log'.closes # <<>>
    /\ Cardinality(Unfolded(call_log'.closes[1].players)) >= 2

\* C25: a betting round closes when the clockwise walk reaches the last
\* aggressor: the seat that acts is never the last aggressor (preflop with no
\* raise that is the big blind, so the big blind does not act), after a bet or
\* raise no seat acts twice, and when a round with a bet or raise closes with
\* two or more players left, every non-folded seat that can act, other than the
\* aggressor, has acted since the bet or raise
C25_RoundClosesAtLastAggressor ==
    [][(Acted /\ ~hand_over) =>
          /\ current_player_idx # last_raise_idx
          /\ turns.raised => current_player_idx \notin turns.acted
          /\ (RaisedNow /\ ClosesContested) =>
                LET at == call_log'.closes[1]
                IN  \A i \in Unfolded(at.players) :
                        (can_make_action(at.players[i]) /\ i # at.last_raise_idx)
                            => i \in ActedNow]_vars

\* this step makes at least one phase transition
PhaseTransition == call_log'.changed /\ call_log'.trail # <<>>

\* C26: right after every phase transition every player's current_bet and the
\* table current bet are 0, and if the hand is then still open for an action
\* last_raise_idx is -1
C26_BetsResetBetweenPhases ==
    [][PhaseTransition =>
          /\ \A i \in Seats(Game) : players'[i].current_bet = 0
          /\ current_bet' = 0
          /\ ~hand_over' => last_raise_idx' = -1]_vars

\* the flop has just been dealt after a preflop round closed with money bet
\* and a last aggressor, and the hand awaits an action
C26_Witness ==
    /\ call_log.changed /\ call_log.trail = <<"flop">>
    /\ call_log.closes # <<>>
    /\ call_log.closes[1].current_bet > 0
    /\ call_log.closes[1].last_raise_idx # -1
    /\ \E i \in Seats(Game) : call_log.closes[1].players[i].current_bet > 0
    /\ ~hand_over

\* C27: after a phase transition that leaves the hand open with some seat able
\* to act, the actor is the first able seat clockwise from the dealer's left;
\* and a step enters more than one phase only when no seat at all could act
\* when the betting round closed
C27_FirstActorAfterPhaseChange ==
    [][PhaseTransition =>
          /\ (~hand_over' /\ \E i \in Seats(Game) : can_make_action(players'[i]))
                => current_player_idx' = FirstAbleAfter(players', dealer_idx)
          /\ Len(call_log'.trail) >= 2
                => \A i \in Seats(Game) : ~can_make_action(call_log'.closes[1].players[i])]_vars

\* every card that is somewhere in the game: the hole cards seat by seat, the
\* community cards and the deck
RECURSIVE HoleCards(_, _)
HoleCards(ps, i) ==
    IF i \notin DOMAIN ps THEN <<>> ELSE ps[i].hand \o HoleCards(ps, i + 1)

CardsInPlay == HoleCards(players, 0) \o community_cards \o deck

\* C28: once a hand has been dealt, the hole cards, the community cards and
\* the deck are pairwise distinct and together exactly the 52 cards, and every
\* player holds exactly two hole cards
C28_FiftyTwoDistinctCards ==
    hands > 0 =>
        /\ Len(CardsInPlay) = DeckSize
        /\ Range(CardsInPlay) = Range(reset)
        /\ \A i \in Seats(Game) : Len(players[i].hand) = 2

\* three players hold their hole cards and the board is complete
C28_Witness ==
    /\ hands > 0
    /\ NumSeats(Game) = 3
    /\ Len(community_cards) = 5
    /\ Len(deck) = DeckSize - 11

\* C29: every player's chips and current_bet are non-negative in every state,
\* whatever amounts bet and raise_bet were asked for (negative, zero and more
\* than the stack are among the amounts requested)
C29_ChipsAndBetsNonNegative ==
    \A i \in Seats(Game) : players[i].chips >= 0 /\ players[i].current_bet >= 0

\* a bet of exactly min_bet by a player who had more chips: the request was
\* zero or negative and was raised to the minimum
C29_Witness ==
    /\ call_log.op = "bet" /\ call_log.changed
    /\ call_log.closes = <<>> /\ ~hand_over
    /\ last_raise_idx \in Seats(Game)
    /\ players[last_raise_idx].current_bet = min_bet
    /\ players[last_raise_idx].chips > 0
    /\ \E amount \in Amounts : amount <= 0

\* the five handlers change the chips and flags of a seat other than the
\* actor's only through the payment of the pot
OthersUntouched ==
    \A i \in Seats(Game) \ {current_player_idx} :
        /\ players'[i].chips >= players[i].chips
        /\ players'[i].folded = players[i].folded
        /\ players'[i].is_all_in = players[i].is_all_in

\* C30: fold, check, call, bet and raise_bet act on the current player only:
\* no other seat loses chips or has its folded or all-in flag changed
C30_OnlyTheActorIsCharged ==
    [][call_log'.op \in {"fold", "check", "call", "bet", "raise_bet"} => OthersUntouched]_vars

\* a raise took chips from the actor while two other seats, one folded and
\* one all-in, kept their chips and flags
C30_Witness ==
    /\ call_log.op = "raise_bet" /\ call_log.changed
    /\ NumSeats(Game) = 3
    /\ \E i, j \in Seats(Game) :
          /\ i # j
          /\ players[i].folded
          /\ players[j].is_all_in
          /\ ~players[j].folded

(* ---------------------------------------------------------------------- *)
(* C31..C39: the end of a hand, turns to act, termination and the bots     *)
(* ---------------------------------------------------------------------- *)
\* C32: the pot of a hand is paid exactly once: when the hand is over the
\* stacks add up to what they added up to before the blinds were posted
C32_PotPaidExactlyOnce ==
    (hands > 0 /\ hand_over) => TotalChips(players) = stacks0

\* C33: whenever the phase is showdown the hand is over
C33_ShowdownMeansHandOver == phase = "showdown" => hand_over

\* one of the five player actions is called in this step
HandlerCalled == call_log'.op \in {"fold", "check", "call", "bet", "raise_bet"}

\* C34: once hand_over is true the five player actions change no field of the
\* game
C34_NoChangeAfterHandOver ==
    [][(hand_over /\ HandlerCalled) => UNCHANGED gameVars]_vars

\* a raise was asked for after the hand had ended at a showdown
C34_Witness ==
    /\ hands > 0 /\ hand_over
    /\ phase = "showdown"
    /\ call_log.op = "raise_bet" /\ ~call_log.changed

\* C35: within a hand a folded player receives no chips and is not named in
\* winner, and while the hand is open the player on turn is not folded
C35_FoldedPlayersAreOut ==
    [][hands' = hands =>
          /\ \A i \in Seats(Game) :
                players'[i].folded => players'[i].chips <= players[i].chips
          /\ \A k \in 1..Len(winner') : ~players'[winner'[k]].folded
          /\ ~hand_over' => ~players'[current_player_idx'].folded]_vars

\* the seats that can act
Able(ps) == {i \in DOMAIN ps : can_make_action(ps[i])}

\* C36: in a flop, turn or river round with two or more players able to act
\* the round does not close before each of them has had a turn; stated for
\* the rounds in which nobody bets or raises, where the players that had a
\* turn are the ones that acted: a single check does not close such a round
C36_EveryAblePlayerGetsATurn ==
    [][(/\ Acted /\ ~hand_over
        /\ phase \in {"flop", "turn", "river"}
        /\ Cardinality(Able(players)) >= 2
        /\ ~RaisedNow
        /\ call_log'.closes # <<>>)
          => Able(players) \subseteq ActedNow]_vars

\* C37: while a hand is in progress a non-folded player's is_all_in flag is
\* true exactly when the player has no chips left
C37_AllInExactlyWhenStackIsGone ==
    HandInProgress =>
        \A i \in Seats(Game) :
            ~players[i].folded => (players[i].is_all_in <=> players[i].chips = 0)

(* ---------------------------------------------------------------------- *)
(* Hands played with accepted actions only.  A call that the handler       *)
(* refuses changes nothing and is not a turn; the player on turn keeps     *)
(* being asked until an action is accepted, which is the fairness assumed: *)
(* while the hand is open the game does not stay in one state for ever.    *)
(* Every step of LegalNext changes the state, so this is weak fairness of  *)
(* LegalNext for as long as a hand is open.                                *)
(* ---------------------------------------------------------------------- *)
Accepted == call_log'.changed

LegalNext ==
    \/ StartNewHand
    \/ Fold /\ Accepted
    \/ Check /\ Accepted
    \/ Call /\ Accepted
    \/ Bet /\ Accepted
    \/ RaiseBet /\ Accepted

TurnsAreTaken == []<>hand_over \/ []<><<TRUE>>_vars

LegalSpec == Init /\ [][LegalNext]_vars /\ TurnsAreTaken

\* C38: when every turn is taken with an accepted action, every hand that is
\* started reaches hand_over = TRUE
C38_EveryHandEnds == (hands > 0) ~> hand_over

\* a hand that went through betting on every street has ended at the showdown
C38_Witness ==
    /\ hands > 0 /\ hand_over
    /\ phase = "showdown"
    /\ call_log.op \in {"check", "call"} /\ call_log.changed
    /\ NumSeats(Game) = 3

\* C39: while a hand is open, every action decide_action returns to the bot on
\* turn is legal in the state it was computed from (check only with the bot's
\* current_bet equal to the table current bet, bet only with the table current
\* bet 0) and changes the game when it is applied; and decide_action gives no
\* decision exactly when the bot is folded or all-in
C39_BotDecisionsAreLegal ==
    (hands > 0 /\ ~hand_over /\ bots.traits[current_player_idx].cls = "BotPlayer") =>
        /\ \A d \in ActorDecisions :
              /\ d.action.type = "check" => Actor.current_bet = current_bet
              /\ d.action.type = "bet" => current_bet = 0
              /\ Dispatch(Game, d.action) # Game
        /\ \A d \in Decisions(Game, Actor, bots.traits[current_player_idx],
                              HandLabel(Game, current_player_idx)) :
              d.outcome = "timeout" <=> (Actor.folded \/ Actor.is_all_in)

\* the standard definitions of the categories, on the values and suits of
\* five cards
ValueCount(cards, v) == Cardinality({i \in 1..5 : get_value(cards[i]) = v})
AllOneSuit(cards) == \A i, j \in 1..5 : get_suit_value(cards[i]) = get_suit_value(cards[j])
RunTop(cards) ==
    IF ValueSet(cards) = {12, 0, 1, 2, 3} THEN 3
    ELSE IF \E h \in 4..12 : ValueSet(cards) = (h - 4)..h
         THEN CHOOSE h \in 4..12 : ValueSet(cards) = (h - 4)..h
         ELSE -1

Satisfies(cards, category) ==
    CASE category = 0 -> AllOneSuit(cards) /\ ValueSet(cards) = 8..12
      [] category = 1 -> AllOneSuit(cards) /\ RunTop(cards) # -1
      [] category = 2 -> \E v \in ValueSet(cards) : ValueCount(cards, v) >= 4
      [] category = 3 -> \E v, w \in ValueSet(cards) :
                             v # w /\ ValueCount(cards, v) >= 3 /\ ValueCount(cards, w) >= 2
      [] category = 4 -> AllOneSuit(cards)
      [] category = 5 -> RunTop(cards) # -1
      [] category = 6 -> \E v \in ValueSet(cards) : ValueCount(cards, v) >= 3
      [] category = 7 -> \E v, w \in ValueSet(cards) :
                             v # w /\ ValueCount(cards, v) >= 2 /\ ValueCount(cards, w) >= 2
      [] category = 8 -> \E v \in ValueSet(cards) : ValueCount(cards, v) >= 2
      [] OTHER -> TRUE

BestCategory(cards) ==
    CHOOSE c \in 0..9 : Satisfies(cards, c) /\ \A b \in 0..(c - 1) : ~Satisfies(cards, b)

\* the value that occurs most often, and the other values in descending order
Matched(cards) ==
    CHOOSE v \in ValueSet(cards) : \A w \in ValueSet(cards) : ValueCount(cards, w) <= ValueCount(cards, v)
Kickers(cards) == SortDesc(SelectSeq(Values(cards), LAMBDA v : v # Matched(cards)))

\* the tie breakers in the form of the category; the forms of Royal Flush and
\* Two Pair are not part of the statement
HasTieBreakerForm(cards, category, tie_breakers) ==
    CASE category \in {2, 6, 8} -> tie_breakers = <<Matched(cards)>> \o Kickers(cards)
      [] category = 3 ->
            tie_breakers = <<Matched(cards),
                             CHOOSE w \in ValueSet(cards) : w # Matched(cards)>>
      [] category \in {4, 9} -> tie_breakers = SortDesc(Values(cards))
      [] category \in {1, 5} -> tie_breakers = <<RunTop(cards)>>
      [] OTHER -> TRUE

\* C31: every five-card hand gets the best category its cards satisfy, under
\* that category's name and with its form of tie breakers; and A A on the
\* board 2 7 9 J 3 is One Pair [12, 9, 7, 5], which beats K K on that board,
\* One Pair [11, 9, 7, 5]
C31_FiveCardHandsClassified ==
    eval.value # None =>
        /\ Len(eval.cards) = 5 =>
              /\ eval.value[1] = BestCategory(eval.cards)
              /\ eval.value[2] = HAND_RANKINGS[BestCategory(eval.cards) + 1]
              /\ HasTieBreakerForm(eval.cards, eval.value[1], eval.value[3])
        /\ eval.cards = AcesOnBoard =>
              /\ SubSeq(eval.value, 1, 3) = <<8, "One Pair", <<12, 9, 7, 5>> >>
              /\ SubSeq(evaluate_hand(KingsOnBoard), 1, 3) = <<8, "One Pair", <<11, 9, 7, 5>> >>
              /\ ListGT(eval.value[3], evaluate_hand(KingsOnBoard)[3])

\* a full house has been evaluated
C31_Witness ==
    /\ eval.value # None
    /\ Len(eval.cards) = 5
    /\ eval.value[1] = 3
    /\ eval.value[3] = <<12, 11>>
====
